---------------------------- MODULE Spec2Model ----------------------------
(* retool-mcp (src/src/index.ts): a tool registry and dispatch adapter.    *)
(* Each registered tool maps a validated argument record to one outbound   *)
(* HTTP request of RetoolClient.request and renders the settled result as  *)
(* an envelope (formatResponse / formatError).                             *)
(*                                                                          *)
(* Text is modelled as a sequence of tokens.  Data that the program only   *)
(* copies (identifiers, dates, response bodies) is a sequence of           *)
(* one-character strings; a literal of the source that nothing ever looks  *)
(* into ("Error: ", "Bearer ") is one token.  Concatenation is \o.         *)
EXTENDS Integers, Sequences, FiniteSets, TLC

(* ------------------------------------------------------------------ *)
(* Bounds of the model                                                 *)
(* ------------------------------------------------------------------ *)
MaxIdLen == 2
MaxDateLen == 1
MaxCalls == 2

(* ------------------------------------------------------------------ *)
(* State                                                               *)
(* ------------------------------------------------------------------ *)
VARIABLES
    env,     \* process.env: RETOOL_URL and RETOOL_API_KEY
    client,  \* the RetoolClient: baseUrl and apiKey
    calls,   \* per call slot: where the tool call stands
    net      \* per call slot: the fetch calls made for it

vars == <<env, client, calls, net>>

(* ------------------------------------------------------------------ *)
(* Text helpers                                                        *)
(* ------------------------------------------------------------------ *)
StartsWith(s, p) == Len(s) >= Len(p) /\ SubSeq(s, 1, Len(p)) = p

Drop(s, n) == SubSeq(s, n + 1, Len(s))

RECURSIVE SeqsUpTo(_, _)
SeqsUpTo(alphabet, n) ==
    IF n = 0 THEN {<<>>}
    ELSE LET shorter == SeqsUpTo(alphabet, n - 1)
         IN  shorter \cup {Append(s, ch) : s \in shorter, ch \in alphabet}

DigitChar(d) == CASE d = 0 -> "0" [] d = 1 -> "1" [] d = 2 -> "2" [] d = 3 -> "3"
                  [] d = 4 -> "4" [] d = 5 -> "5" [] d = 6 -> "6" [] d = 7 -> "7"
                  [] d = 8 -> "8" [] d = 9 -> "9"

(* String(n) of a non-negative integer, as a template literal renders it. *)
RECURSIVE NumberToString(_)
NumberToString(n) ==
    IF n < 10 THEN <<DigitChar(n)>>
    ELSE Append(NumberToString(n \div 10), DigitChar(n % 10))

(* ------------------------------------------------------------------ *)
(* JavaScript values: [t |-> tag, v |-> payload]                       *)
(*   undefined, null            v = <<>>                               *)
(*   bool                       v = <<"true">> or <<"false">>          *)
(*   num                        v = its decimal digits                 *)
(*   str                        v = its characters                     *)
(*   arr                        v = sequence of values                 *)
(*   obj                        v = sequence of <<key, value>> pairs   *)
(* ------------------------------------------------------------------ *)
Undefined == [t |-> "undefined", v |-> <<>>]
JNull == [t |-> "null", v |-> <<>>]
JBool(b) == [t |-> "bool", v |-> IF b THEN <<"true">> ELSE <<"false">>]
JNum(digits) == [t |-> "num", v |-> digits]
JStr(chars) == [t |-> "str", v |-> chars]
JArr(elems) == [t |-> "arr", v |-> elems]
JObj(members) == [t |-> "obj", v |-> members]

(* JavaScript truthiness of the values the program tests. *)
Truthy(x) ==
    CASE x.t = "undefined" -> FALSE
      [] x.t = "null" -> FALSE
      [] x.t = "str" -> x.v # <<>>
      [] x.t = "bool" -> x.v = <<"true">>
      [] x.t = "num" -> x.v # <<"0">>
      [] OTHER -> TRUE

(* `${x}` : the string a template literal interpolates for x. *)
TemplateString(x) ==
    CASE x.t = "str" -> x.v
      [] x.t = "num" -> x.v
      [] x.t = "bool" -> x.v
      [] x.t = "undefined" -> <<"undefined">>
      [] x.t = "null" -> <<"null">>
      [] OTHER -> <<"[object Object]">>

(* ------------------------------------------------------------------ *)
(* JSON.parse, as response.json() applies it to the body text.         *)
(* Grammar covered: null, true, false, non-negative integers, strings  *)
(* without escapes, arrays, objects, whitespace.                       *)
(* ------------------------------------------------------------------ *)
JSONWhitespace == {" ", "\n", "\t", "\r"}
JSONDigits == {"0", "1", "2", "3", "4", "5", "6", "7", "8", "9"}

ParseFail == [ok |-> FALSE, val |-> Undefined, rest |-> <<>>]
ParseOk(val, rest) == [ok |-> TRUE, val |-> val, rest |-> rest]

RECURSIVE SkipWs(_)
SkipWs(s) == IF s # <<>> /\ Head(s) \in JSONWhitespace THEN SkipWs(Tail(s)) ELSE s

RECURSIVE TakeDigits(_)
TakeDigits(s) ==
    IF s # <<>> /\ Head(s) \in JSONDigits
    THEN <<Head(s)>> \o TakeDigits(Tail(s))
    ELSE <<>>

(* The characters of a string up to its closing quote; s starts after the opening quote. *)
RECURSIVE JSONstring(_, _)
JSONstring(s, acc) ==
    IF s = <<>> THEN ParseFail
    ELSE IF Head(s) = "\"" THEN ParseOk(acc, Tail(s))
    ELSE IF Head(s) \in {"\\", "\n", "\t", "\r"} THEN ParseFail
    ELSE JSONstring(Tail(s), Append(acc, Head(s)))

(* A later duplicate key overwrites the earlier value and keeps its position. *)
RECURSIVE PutMember(_, _, _)
PutMember(members, k, val) ==
    IF members = <<>> THEN <<<<k, val>>>>
    ELSE IF Head(members)[1] = k THEN <<<<k, val>>>> \o Tail(members)
    ELSE <<Head(members)>> \o PutMember(Tail(members), k, val)

RECURSIVE JSONvalue(_)
RECURSIVE JSONelements(_, _)
RECURSIVE JSONmembers(_, _)
JSONvalue(s0) ==
    LET s == SkipWs(s0) IN
    IF s = <<>> THEN ParseFail
    ELSE IF StartsWith(s, <<"n", "u", "l", "l">>) THEN ParseOk(JNull, Drop(s, 4))
    ELSE IF StartsWith(s, <<"t", "r", "u", "e">>) THEN ParseOk(JBool(TRUE), Drop(s, 4))
    ELSE IF StartsWith(s, <<"f", "a", "l", "s", "e">>) THEN ParseOk(JBool(FALSE), Drop(s, 5))
    ELSE IF Head(s) = "\"" THEN
        LET r == JSONstring(Tail(s), <<>>)
        IN  IF r.ok THEN ParseOk(JStr(r.val), r.rest) ELSE ParseFail
    ELSE IF Head(s) \in JSONDigits THEN
        LET d == TakeDigits(s)
        IN  IF Len(d) > 1 /\ Head(d) = "0" THEN ParseOk(JNum(<<"0">>), Tail(s))
            ELSE ParseOk(JNum(d), Drop(s, Len(d)))
    ELSE IF Head(s) = "[" THEN
        LET t == SkipWs(Tail(s))
        IN  IF t # <<>> /\ Head(t) = "]" THEN ParseOk(JArr(<<>>), Tail(t))
            ELSE JSONelements(t, <<>>)
    ELSE IF Head(s) = "{" THEN
        LET t == SkipWs(Tail(s))
        IN  IF t # <<>> /\ Head(t) = "}" THEN ParseOk(JObj(<<>>), Tail(t))
            ELSE JSONmembers(t, <<>>)
    ELSE ParseFail

JSONelements(s, acc) ==
    LET r == JSONvalue(s) IN
    IF ~r.ok THEN ParseFail
    ELSE LET t == SkipWs(r.rest) IN
         IF t = <<>> THEN ParseFail
         ELSE IF Head(t) = "," THEN JSONelements(Tail(t), Append(acc, r.val))
         ELSE IF Head(t) = "]" THEN ParseOk(JArr(Append(acc, r.val)), Tail(t))
         ELSE ParseFail

JSONmembers(s0, acc) ==
    LET s == SkipWs(s0) IN
    IF s = <<>> \/ Head(s) # "\"" THEN ParseFail
    ELSE LET k == JSONstring(Tail(s), <<>>) IN
         IF ~k.ok THEN ParseFail
         ELSE LET t == SkipWs(k.rest) IN
              IF t = <<>> \/ Head(t) # ":" THEN ParseFail
              ELSE LET r == JSONvalue(Tail(t)) IN
                   IF ~r.ok THEN ParseFail
                   ELSE LET u == SkipWs(r.rest) IN
                        IF u = <<>> THEN ParseFail
                        ELSE IF Head(u) = "," THEN
                            JSONmembers(Tail(u), PutMember(acc, k.val, r.val))
                        ELSE IF Head(u) = "}" THEN
                            ParseOk(JObj(PutMember(acc, k.val, r.val)), Tail(u))
                        ELSE ParseFail

(* JSON.parse(text): the value, or a SyntaxError. *)
JSONparse(text) ==
    LET r == JSONvalue(text) IN
    IF r.ok /\ SkipWs(r.rest) = <<>> THEN [ok |-> TRUE, val |-> r.val]
    ELSE [ok |-> FALSE, val |-> Undefined]

(* ------------------------------------------------------------------ *)
(* JSON.stringify(value, null, gap): gap is the indentation unit       *)
(* (<<>> for the compact form, two spaces for indent 2).               *)
(* ------------------------------------------------------------------ *)
RECURSIVE DropUndefined(_)
DropUndefined(members) ==
    IF members = <<>> THEN <<>>
    ELSE IF Head(members)[2].t = "undefined" THEN DropUndefined(Tail(members))
    ELSE <<Head(members)>> \o DropUndefined(Tail(members))

RECURSIVE JSONstr(_, _, _)
RECURSIVE JSONjoin(_, _, _, _, _)
(* The serialized items of an array (isObj = FALSE) or object, joined by sep. *)
JSONjoin(items, isObj, gap, indent, sep) ==
    IF items = <<>> THEN <<>>
    ELSE LET one == IF isObj
                    THEN <<"\"">> \o Head(items)[1] \o <<"\"", ":">>
                           \o (IF gap = <<>> THEN <<>> ELSE <<" ">>)
                           \o JSONstr(Head(items)[2], gap, indent)
                    ELSE IF Head(items).t = "undefined"
                         THEN <<"n", "u", "l", "l">>
                         ELSE JSONstr(Head(items), gap, indent)
         IN  IF Len(items) = 1 THEN one
             ELSE one \o sep \o JSONjoin(Tail(items), isObj, gap, indent, sep)

JSONstr(x, gap, indent) ==
    CASE x.t = "null" -> <<"n", "u", "l", "l">>
      [] x.t = "bool" -> IF x.v = <<"true">> THEN <<"t", "r", "u", "e">>
                                              ELSE <<"f", "a", "l", "s", "e">>
      [] x.t = "num" -> x.v
      [] x.t = "str" -> <<"\"">> \o x.v \o <<"\"">>
      [] x.t \in {"arr", "obj"} ->
            LET isObj == x.t = "obj"
                items == IF isObj THEN DropUndefined(x.v) ELSE x.v
                open == IF isObj THEN <<"{">> ELSE <<"[">>
                close == IF isObj THEN <<"}">> ELSE <<"]">>
                inner == indent \o gap
            IN  IF items = <<>> THEN open \o close
                ELSE IF gap = <<>>
                THEN open \o JSONjoin(items, isObj, gap, inner, <<",">>) \o close
                ELSE open \o <<"\n">> \o inner
                       \o JSONjoin(items, isObj, gap, inner, <<",", "\n">> \o inner)
                       \o <<"\n">> \o indent \o close

JSONstringify(x, gap) == JSONstr(x, gap, <<>>)

(* ------------------------------------------------------------------ *)
(* Environment configuration (index.ts 8-13)                           *)
(* ------------------------------------------------------------------ *)
DefaultUrl == <<"https:", "/", "/", "retool.example.com">>

(* process.env.RETOOL_URL || "https://retool.example.com" *)
RETOOL_URL(e) == IF Truthy(e.RETOOL_URL) THEN e.RETOOL_URL.v ELSE DefaultUrl

(* process.env.RETOOL_API_KEY || "" : an unset key only logs a warning. *)
RETOOL_API_KEY(e) == IF Truthy(e.RETOOL_API_KEY) THEN e.RETOOL_API_KEY.v ELSE <<>>

(* ------------------------------------------------------------------ *)
(* RetoolClient (index.ts 16-160)                                      *)
(* ------------------------------------------------------------------ *)
(* StripTrailingSlash with the pattern /\/+$/ : every trailing "/" is removed. *)
RECURSIVE StripAllTrailingSlashes(_)
StripAllTrailingSlashes(url) ==
    IF url # <<>> /\ url[Len(url)] = "/"
    THEN StripAllTrailingSlashes(SubSeq(url, 1, Len(url) - 1))
    ELSE url

(* baseUrl.replace( /\/$/, "" ) : one trailing "/" is removed. *)
StripTrailingSlash(url) ==
    IF url # <<>> /\ url[Len(url)] = "/" THEN SubSeq(url, 1, Len(url) - 1) ELSE url

RetoolClient(baseUrl, apiKey) ==
    [baseUrl |-> StripTrailingSlash(baseUrl), apiKey |-> apiKey]

(* What an endpoint method hands to this.request. *)
Req(method, endpoint, body) == [method |-> method, endpoint |-> endpoint, body |-> body]

listApps == Req("GET", <<"/", "apps">>, Undefined)

getApp(appId) == Req("GET", <<"/", "apps", "/">> \o TemplateString(appId), Undefined)

createApp(name, folderId) ==
    Req("POST", <<"/", "apps">>,
        JObj(<< <<<<"name">>, name>>, <<<<"folder_id">>, folderId>> >>))

deleteApp(appId) == Req("DELETE", <<"/", "apps", "/">> \o TemplateString(appId), Undefined)

createAppRelease(appId, version) ==
    Req("POST", <<"/", "apps", "/">> \o TemplateString(appId) \o <<"/", "releases">>,
        JObj(<< <<<<"version">>, version>> >>))

listFolders == Req("GET", <<"/", "folders">>, Undefined)

createFolder(name, parentFolderId) ==
    Req("POST", <<"/", "folders">>,
        JObj(<< <<<<"name">>, name>>, <<<<"parent_folder_id">>, parentFolderId>> >>))

listWorkflows == Req("GET", <<"/", "workflows">>, Undefined)

(* triggerWorkflow sending null for data that was not given. *)
triggerWorkflowNullData(workflowId, data) ==
    Req("POST", <<"/", "workflows", "/">> \o TemplateString(workflowId) \o <<"/", "trigger">>,
        JObj(<< <<<<"data">>, IF data = Undefined THEN JNull ELSE data>> >>))

triggerWorkflow(workflowId, data) ==
    Req("POST", <<"/", "workflows", "/">> \o TemplateString(workflowId) \o <<"/", "trigger">>,
        JObj(<< <<<<"data">>, data>> >>))

listResources == Req("GET", <<"/", "resources">>, Undefined)

getResource(resourceId) ==
    Req("GET", <<"/", "resources", "/">> \o TemplateString(resourceId), Undefined)

listUsers == Req("GET", <<"/", "users">>, Undefined)

(* getUser pasted from getGroup with the path left unchanged. *)
getUserWrongPath(userId) ==
    Req("GET", <<"/", "groups", "/">> \o TemplateString(userId), Undefined)

getUser(userId) == Req("GET", <<"/", "users", "/">> \o TemplateString(userId), Undefined)

createUser(email, firstName, lastName) ==
    Req("POST", <<"/", "users">>,
        JObj(<< <<<<"email">>, email>>, <<<<"first_name">>, firstName>>,
                <<<<"last_name">>, lastName>> >>))

deactivateUser(userId) ==
    Req("POST", <<"/", "users", "/">> \o TemplateString(userId) \o <<"/", "deactivate">>,
        Undefined)

listGroups == Req("GET", <<"/", "groups">>, Undefined)

getGroup(groupId) == Req("GET", <<"/", "groups", "/">> \o TemplateString(groupId), Undefined)

addUserToGroup(groupId, userId) ==
    Req("POST", <<"/", "groups", "/">> \o TemplateString(groupId) \o <<"/", "members">>,
        JObj(<< <<<<"user_id">>, userId>> >>))

listSourceControlSettings == Req("GET", <<"/", "source_control", "/", "settings">>, Undefined)

(* The application/x-www-form-urlencoded serializer of URLSearchParams:      *)
(* alphanumerics and * - . _ stay, a space becomes "+", every other byte is  *)
(* percent-encoded with upper-case hex digits.                              *)
FormUnreserved == {"a", "u", "T", "Z", "0", "1", "2", "7", "*", "-", ".", "_"}

FormEncodeChar(ch) ==
    CASE ch \in FormUnreserved -> <<ch>>
      [] ch = " " -> <<"+">>
      [] ch = ":" -> <<"%", "3", "A">>
      [] ch = "&" -> <<"%", "2", "6">>
      [] ch = "=" -> <<"%", "3", "D">>
      [] ch = "+" -> <<"%", "2", "B">>
      [] ch = "%" -> <<"%", "2", "5">>
      [] ch = "/" -> <<"%", "2", "F">>
      [] ch = "?" -> <<"%", "3", "F">>
      [] ch = "#" -> <<"%", "2", "3">>

RECURSIVE FormEncode(_)
FormEncode(s) == IF s = <<>> THEN <<>> ELSE FormEncodeChar(Head(s)) \o FormEncode(Tail(s))

(* URLSearchParams.toString() of the appended <<name, value>> pairs. *)
RECURSIVE URLSearchParamsToString(_)
URLSearchParamsToString(params) ==
    IF params = <<>> THEN <<>>
    ELSE LET one == Head(params)[1] \o <<"=">> \o FormEncode(Head(params)[2])
         IN  IF Len(params) = 1 THEN one
             ELSE one \o <<"&">> \o URLSearchParamsToString(Tail(params))

(* getAuditLogs building the query string by hand, without encoding. *)
getAuditLogsRaw(startDate, endDate) ==
    LET q1 == IF Truthy(startDate)
              THEN <<"start_date", "=">> \o TemplateString(startDate) ELSE <<>>
        q2 == IF Truthy(endDate)
              THEN (IF q1 # <<>> THEN <<"&">> ELSE <<>>)
                     \o <<"end_date", "=">> \o TemplateString(endDate)
              ELSE <<>>
        endpoint == IF q1 \o q2 # <<>> THEN <<"/", "audit_logs">> \o <<"?">> \o q1 \o q2
                                       ELSE <<"/", "audit_logs">>
    IN  Req("GET", endpoint, Undefined)

getAuditLogs(startDate, endDate) ==
    LET p1 == IF Truthy(startDate)
              THEN << << <<"start_date">>, TemplateString(startDate) >> >> ELSE <<>>
        params == IF Truthy(endDate)
                  THEN Append(p1, << <<"end_date">>, TemplateString(endDate) >>) ELSE p1
        query == URLSearchParamsToString(params)
        endpoint == IF query # <<>> THEN <<"/", "audit_logs">> \o <<"?">> \o query
                                    ELSE <<"/", "audit_logs">>
    IN  Req("GET", endpoint, Undefined)

(* requestFetch through one options object kept on the client and shared by *)
(* the calls in flight: a call issued while another awaits its fetch sends  *)
(* that call's request.                                                     *)
requestFetchShared(self, r) ==
    LET inflight == {d \in DOMAIN calls : calls[d].pc = "fetch"}
    IN  IF inflight # {} THEN <<net[CHOOSE d \in inflight : TRUE][1]>>
        ELSE << [url |-> self.baseUrl \o <<"/", "api", "/", "v2">> \o r.endpoint,
                 method |-> r.method,
                 headers |-> [Authorization |-> <<"Bearer ">> \o self.apiKey,
                              ContentType |-> <<"application/json">>],
                 body |-> IF Truthy(r.body) THEN JStr(JSONstringify(r.body, <<>>))
                          ELSE Undefined] >>

(* request(), lines 30-40: the fetch calls it makes for one invocation. *)
requestFetch(self, r) ==
    << [url |-> self.baseUrl \o <<"/", "api", "/", "v2">> \o r.endpoint,
        method |-> r.method,
        headers |-> [Authorization |-> <<"Bearer ">> \o self.apiKey,
                     ContentType |-> <<"application/json">>],
        body |-> IF Truthy(r.body) THEN JStr(JSONstringify(r.body, <<>>)) ELSE Undefined] >>

(* response.ok *)
ResponseOk(status) == 200 <= status /\ status <= 299

(* Values that can be thrown: an Error carries a message, anything else does not count. *)
ErrorObject(name, message) == [isError |-> TRUE, name |-> name, message |-> message]
NonError == [isError |-> FALSE, name |-> "", message |-> <<"thrown value">>]

(* requestNotOk with the status left out of the message. *)
requestNotOkNoStatus(status, errorText) ==
    ErrorObject("Error", <<"Retool API error: ">> \o errorText)

(* request(), lines 42-47: the Error thrown for a non-ok response. *)
requestNotOk(status, errorText) ==
    ErrorObject("Error",
        <<"Retool API error (">> \o NumberToString(status) \o <<"): ">> \o errorText)

(* What the body stream throws when the connection ends before the body does. *)
StreamError == ErrorObject("TypeError", <<"terminated">>)

(* The SyntaxError response.json() throws for a body that is not JSON. *)
JsonSyntaxError(body) ==
    ErrorObject("SyntaxError",
        IF body = <<>> THEN <<"Unexpected end of JSON input">>
        ELSE <<"Unexpected token in JSON">>)

(* How an awaited step ends: with a value, or by throwing. *)
Returns(value) == [threw |-> FALSE, value |-> value, error |-> NonError]
Throws(error) == [threw |-> TRUE, value |-> Undefined, error |-> error]

(* request(), lines 42-47, once response.text() settles. *)
requestText(resp) ==
    IF resp.complete THEN Throws(requestNotOk(resp.status, resp.body))
    ELSE Throws(StreamError)

(* request(), line 49, once response.json() settles. *)
requestJson(resp) ==
    IF ~resp.complete THEN Throws(StreamError)
    ELSE LET parsed == JSONparse(resp.body)
         IN  IF parsed.ok THEN Returns(parsed.val) ELSE Throws(JsonSyntaxError(resp.body))

(* ------------------------------------------------------------------ *)
(* Envelopes (index.ts 171-193)                                        *)
(* ------------------------------------------------------------------ *)
(* formatResponse without the indentation argument of JSON.stringify. *)
formatResponseCompact(result) ==
    [content |-> << [type |-> "text", text |-> JSONstringify(result, <<>>)] >>]

formatResponse(result) ==
    [content |-> << [type |-> "text", text |-> JSONstringify(result, <<" ", " ">>)] >>]

formatError(error) ==
    LET errorMessage == IF error.isError THEN error.message
                        ELSE <<"Unknown error occurred">>
    IN  [content |-> << [type |-> "text", text |-> <<"Error: ">> \o errorMessage] >>,
         isError |-> TRUE]

(* The try/catch every tool callback wraps around its client call. *)
toolCallback(settled) ==
    IF settled.threw
    THEN [pc |-> "returned", envelope |-> formatError(settled.error)]
    ELSE [pc |-> "returned", envelope |-> formatResponse(settled.value)]

(* ------------------------------------------------------------------ *)
(* Tool registrations (index.ts 195-490)                               *)
(* ------------------------------------------------------------------ *)
(* The registrations with one more tool, for listSourceControlSettings. *)
RegisteredToolsWithSourceControl ==
    << "retool_list_apps", "retool_get_app", "retool_create_app", "retool_delete_app",
       "retool_create_app_release", "retool_list_folders", "retool_create_folder",
       "retool_list_workflows", "retool_trigger_workflow", "retool_list_resources",
       "retool_get_resource", "retool_list_users", "retool_get_user",
       "retool_create_user", "retool_deactivate_user", "retool_list_groups",
       "retool_get_group", "retool_add_user_to_group",
       "retool_list_source_control_settings", "retool_get_audit_logs" >>

(* The names passed to server.tool(), in registration order. *)
RegisteredTools ==
    << "retool_list_apps", "retool_get_app", "retool_create_app", "retool_delete_app",
       "retool_create_app_release", "retool_list_folders", "retool_create_folder",
       "retool_list_workflows", "retool_trigger_workflow", "retool_list_resources",
       "retool_get_resource", "retool_list_users", "retool_get_user",
       "retool_create_user", "retool_deactivate_user", "retool_list_groups",
       "retool_get_group", "retool_add_user_to_group", "retool_get_audit_logs" >>

ZString == [type |-> "str", optional |-> FALSE]
ZOptionalString == [type |-> "str", optional |-> TRUE]
ZOptionalRecord == [type |-> "obj", optional |-> TRUE]

(* The zod shape each tool is registered with. *)
inputSchema(tool) ==
    CASE tool \in {"retool_get_app", "retool_delete_app"} -> [app_id |-> ZString]
      [] tool = "retool_create_app" -> [name |-> ZString, folder_id |-> ZOptionalString]
      [] tool = "retool_create_app_release" ->
            [app_id |-> ZString, version |-> ZOptionalString]
      [] tool = "retool_create_folder" ->
            [name |-> ZString, parent_folder_id |-> ZOptionalString]
      [] tool = "retool_trigger_workflow" ->
            [workflow_id |-> ZString, data |-> ZOptionalRecord]
      [] tool = "retool_get_resource" -> [resource_id |-> ZString]
      [] tool \in {"retool_get_user", "retool_deactivate_user"} -> [user_id |-> ZString]
      [] tool = "retool_create_user" ->
            [email |-> ZString, first_name |-> ZOptionalString,
             last_name |-> ZOptionalString]
      [] tool = "retool_get_group" -> [group_id |-> ZString]
      [] tool = "retool_add_user_to_group" -> [group_id |-> ZString, user_id |-> ZString]
      [] tool = "retool_get_audit_logs" ->
            [start_date |-> ZOptionalString, end_date |-> ZOptionalString]
      [] OTHER -> <<>>

(* The client call each tool callback awaits. *)
toolRequest(tool, args) ==
    CASE tool = "retool_list_apps" -> listApps
      [] tool = "retool_get_app" -> getApp(args.app_id)
      [] tool = "retool_create_app" -> createApp(args.name, args.folder_id)
      [] tool = "retool_delete_app" -> deleteApp(args.app_id)
      [] tool = "retool_create_app_release" -> createAppRelease(args.app_id, args.version)
      [] tool = "retool_list_folders" -> listFolders
      [] tool = "retool_create_folder" -> createFolder(args.name, args.parent_folder_id)
      [] tool = "retool_list_workflows" -> listWorkflows
      [] tool = "retool_trigger_workflow" -> triggerWorkflow(args.workflow_id, args.data)
      [] tool = "retool_list_resources" -> listResources
      [] tool = "retool_get_resource" -> getResource(args.resource_id)
      [] tool = "retool_list_users" -> listUsers
      [] tool = "retool_get_user" -> getUser(args.user_id)
      [] tool = "retool_create_user" ->
            createUser(args.email, args.first_name, args.last_name)
      [] tool = "retool_deactivate_user" -> deactivateUser(args.user_id)
      [] tool = "retool_list_groups" -> listGroups
      [] tool = "retool_get_group" -> getGroup(args.group_id)
      [] tool = "retool_add_user_to_group" -> addUserToGroup(args.group_id, args.user_id)
      [] tool = "retool_get_audit_logs" -> getAuditLogs(args.start_date, args.end_date)
      [] tool = "retool_list_source_control_settings" -> listSourceControlSettings

(* The server parses the arguments with the tool's shape before it calls the *)
(* callback: z.string() takes a string only, .optional() also takes a        *)
(* missing argument, z.record() takes an object.                             *)
safeParse(schema, args) ==
    \A p \in DOMAIN schema :
        \/ args[p].t = "undefined" /\ schema[p].optional
        \/ args[p].t = schema[p].type

(* ------------------------------------------------------------------ *)
(* What the protocol host and the remote API can send                   *)
(* ------------------------------------------------------------------ *)
IdAlphabet == {"u", "/", "?", "#"}
Ids == SeqsUpTo(IdAlphabet, MaxIdLen)
DateAlphabet == {"2", ":", " ", "&", "+", "="}
Dates == SeqsUpTo(DateAlphabet, MaxDateLen)

IdParams == {"app_id", "workflow_id", "resource_id", "user_id", "group_id"}
DateParams == {"start_date", "end_date"}

(* The values the host may pass for a parameter, valid and invalid. The *)
(* user_id of retool_add_user_to_group goes into the body, not the path. *)
ArgValues(tool, param) ==
    CASE tool = "retool_add_user_to_group" /\ param = "user_id" ->
            {Undefined, JNum(<<"7">>), JStr(<<"u">>)}
      [] param \in IdParams -> {Undefined, JNum(<<"7">>)} \cup {JStr(s) : s \in Ids}
      [] param \in DateParams -> {Undefined} \cup {JStr(s) : s \in Dates}
      [] param \in {"name", "email"} -> {Undefined, JStr(<<"n">>)}
      [] param = "data" ->
            {Undefined, JObj(<<>>), JObj(<< <<<<"k">>, JNum(<<"1">>)>> >>), JStr(<<"s">>)}
      [] OTHER -> {Undefined, JStr(<<"f">>), JNum(<<"7">>)}

(* Every argument record the host may send to a tool. *)
ArgRecords(tool) ==
    LET schema == inputSchema(tool)
    IN  IF DOMAIN schema = {} THEN {<<>>}
        ELSE {a \in [DOMAIN schema -> UNION {ArgValues(tool, p) : p \in DOMAIN schema}] :
                \A p \in DOMAIN schema : a[p] \in ArgValues(tool, p)}

ToolNames == {RegisteredTools[i] : i \in DOMAIN RegisteredTools}

(* Names a host may ask for: the registered ones and two that are not. *)
HostToolNames == ToolNames \cup {"retool_list_source_control_settings", "retool_unknown"}

Response(status, body, complete) ==
    [kind |-> "response", status |-> status, body |-> body, complete |-> complete,
     error |-> NonError]
Rejected(error) ==
    [kind |-> "rejected", status |-> 0, body |-> <<>>, complete |-> FALSE,
     error |-> error]
NoResponse == [kind |-> "none", status |-> 0, body |-> <<>>, complete |-> FALSE,
               error |-> NonError]

FetchFailed == ErrorObject("TypeError", <<"fetch failed">>)

Statuses == {200, 204, 299, 300, 404, 500}

Bodies ==
    { <<>>,
      <<"[", "]">>,
      <<"{", "\"", "a", "\"", ":", "[", "1", ",", " ", "n", "u", "l", "l", "]", "}">>,
      <<"\"", "o", "k", "\"">>,
      <<"<", "h", "t", "m", "l", ">">>,
      <<"{", "\"", "a", "\"", ":">> }

(* Every way a fetch can settle. *)
AllOutcomes ==
    {Rejected(FetchFailed), Rejected(NonError)}
      \cup {Response(st, b, TRUE) : st \in Statuses, b \in Bodies}
      \cup {Response(st, <<>>, FALSE) : st \in Statuses}

(* A small set of outcomes: a transport failure, a 200 and a 500. *)
FewOutcomes ==
    { Rejected(FetchFailed),
      Response(200, <<"[", "]">>, TRUE),
      Response(500, <<"n", "o">>, TRUE) }

NoEnvelope == <<>>

IdleCall == [pc |-> "idle", tool |-> "", args |-> <<>>, resp |-> NoResponse,
             envelope |-> NoEnvelope]

EnvUrls == {Undefined, JStr(<<"https:", "/", "/", "h">>),
            JStr(<<"https:", "/", "/", "h", "/">>),
            JStr(<<"https:", "/", "/", "h", "/", "/">>)}
EnvKeys == {Undefined, JStr(<<>>), JStr(<<"k">>)}

(* Module load: the environment is read and the client constructed once. *)
InitWith(urls, keys, slots) ==
    /\ env \in [RETOOL_URL : urls, RETOOL_API_KEY : keys]
    /\ client = RetoolClient(RETOOL_URL(env), RETOOL_API_KEY(env))
    /\ calls = [c \in slots |-> IdleCall]
    /\ net = [c \in slots |-> <<>>]

(* CallTool for tools registered without their shape: nothing is parsed. *)
CallToolUnchecked(c, names) ==
    /\ calls[c].pc = "idle"
    /\ \E tool \in names :
        \E args \in ArgRecords(tool) :
            IF tool \in ToolNames
            THEN /\ calls' = [calls EXCEPT ![c] =
                        [@ EXCEPT !.pc = "fetch", !.tool = tool, !.args = args]]
                 /\ net' = [net EXCEPT ![c] =
                        @ \o requestFetch(client, toolRequest(tool, args))]
            ELSE /\ calls' = [calls EXCEPT ![c] =
                        [@ EXCEPT !.pc = "rejected", !.tool = tool, !.args = args]]
                 /\ net' = net
    /\ UNCHANGED <<env, client>>

(* The host calls a tool: the server looks the name up, parses the arguments *)
(* and runs the callback up to its await of fetch.                           *)
CallTool(c, names) ==
    /\ calls[c].pc = "idle"
    /\ \E tool \in names :
        \E args \in ArgRecords(tool) :
            IF tool \in ToolNames /\ safeParse(inputSchema(tool), args)
            THEN /\ calls' = [calls EXCEPT ![c] =
                        [@ EXCEPT !.pc = "fetch", !.tool = tool, !.args = args]]
                 /\ net' = [net EXCEPT ![c] =
                        @ \o requestFetch(client, toolRequest(tool, args))]
            ELSE /\ calls' = [calls EXCEPT ![c] =
                        [@ EXCEPT !.pc = "rejected", !.tool = tool, !.args = args]]
                 /\ net' = net
    /\ UNCHANGED <<env, client>>

(* Finish(c, settled): the callback's try/catch turns the settled client call *)
(* into the envelope the server returns.                                      *)
Finish(c, resp, settled) ==
    calls' = [calls EXCEPT ![c] =
        [@ EXCEPT !.pc = toolCallback(settled).pc, !.resp = resp,
                  !.envelope = toolCallback(settled).envelope]]

(* FetchSettles with a retry: a fetch that rejects is issued once more. *)
FetchSettlesRetry(c, outcomes) ==
    /\ calls[c].pc = "fetch"
    /\ \E o \in outcomes :
        IF o.kind = "rejected" /\ Len(net[c]) < 2
        THEN /\ net' = [net EXCEPT ![c] = @ \o <<net[c][1]>>]
             /\ calls' = calls
        ELSE /\ net' = net
             /\ IF o.kind = "rejected" THEN Finish(c, o, Throws(o.error))
                ELSE calls' = [calls EXCEPT ![c] =
                        [@ EXCEPT !.pc = IF ResponseOk(o.status) THEN "json" ELSE "text",
                                  !.resp = o]]
    /\ UNCHANGED <<env, client>>

(* The fetch settles: it rejects, or resolves with a response whose body is *)
(* then read as text (not ok) or as JSON (ok).                              *)
FetchSettles(c, outcomes) ==
    /\ calls[c].pc = "fetch"
    /\ \E o \in outcomes :
        IF o.kind = "rejected" THEN Finish(c, o, Throws(o.error))
        ELSE calls' = [calls EXCEPT ![c] =
                [@ EXCEPT !.pc = IF ResponseOk(o.status) THEN "json" ELSE "text",
                          !.resp = o]]
    /\ UNCHANGED <<env, client, net>>

(* await response.text() settles. *)
TextSettles(c) ==
    /\ calls[c].pc = "text"
    /\ Finish(c, calls[c].resp, requestText(calls[c].resp))
    /\ UNCHANGED <<env, client, net>>

(* response.json() settles. *)
JsonSettles(c) ==
    /\ calls[c].pc = "json"
    /\ Finish(c, calls[c].resp, requestJson(calls[c].resp))
    /\ UNCHANGED <<env, client, net>>

(* The host has the answer; the slot is free for the next call. *)
Deliver(c) ==
    /\ calls[c].pc \in {"returned", "rejected"}
    /\ calls' = [calls EXCEPT ![c] = IdleCall]
    /\ net' = [net EXCEPT ![c] = <<>>]
    /\ UNCHANGED <<env, client>>

(* One call at a time, every tool and argument, a few outcomes. *)
Init == InitWith(EnvUrls, EnvKeys, {1})

Next ==
    \/ \E c \in DOMAIN calls : CallTool(c, HostToolNames)
    \/ \E c \in DOMAIN calls : FetchSettles(c, FewOutcomes)
    \/ \E c \in DOMAIN calls : TextSettles(c)
    \/ \E c \in DOMAIN calls : JsonSettles(c)
    \/ \E c \in DOMAIN calls : Deliver(c)

Spec == Init /\ [][Next]_vars

(* One call at a time, a few tools, every outcome. *)
FewTools == {"retool_list_apps", "retool_delete_app", "retool_create_app"}

InitResp == InitWith({JStr(<<"https:", "/", "/", "h">>)}, {JStr(<<"k">>)}, {1})

NextResp ==
    \/ \E c \in DOMAIN calls : CallTool(c, FewTools)
    \/ \E c \in DOMAIN calls : FetchSettles(c, AllOutcomes)
    \/ \E c \in DOMAIN calls : TextSettles(c)
    \/ \E c \in DOMAIN calls : JsonSettles(c)
    \/ \E c \in DOMAIN calls : Deliver(c)

SpecResp == InitResp /\ [][NextResp]_vars

(* Concurrent calls: MaxCalls slots, a few tools, a few outcomes. *)
ConcTools == {"retool_list_apps", "retool_list_folders", "retool_create_app"}

InitConc == InitWith({JStr(<<"https:", "/", "/", "h">>)}, {JStr(<<"k">>)}, 1..MaxCalls)

NextConc ==
    \/ \E c \in DOMAIN calls : CallTool(c, ConcTools)
    \/ \E c \in DOMAIN calls : FetchSettles(c, FewOutcomes)
    \/ \E c \in DOMAIN calls : TextSettles(c)
    \/ \E c \in DOMAIN calls : JsonSettles(c)
    \/ \E c \in DOMAIN calls : Deliver(c)

SpecConc == InitConc /\ [][NextConc]_vars

(* ------------------------------------------------------------------ *)
(* README.md, Available Tools (lines 86-133)                           *)
(* ------------------------------------------------------------------ *)
ReadmeTools ==
    { "retool_list_apps", "retool_get_app", "retool_create_app", "retool_delete_app",
      "retool_create_app_release",
      "retool_list_folders", "retool_create_folder",
      "retool_list_workflows", "retool_trigger_workflow",
      "retool_list_resources", "retool_get_resource",
      "retool_list_users", "retool_get_user", "retool_create_user",
      "retool_deactivate_user",
      "retool_list_groups", "retool_get_group", "retool_add_user_to_group",
      "retool_get_audit_logs" }

(* ------------------------------------------------------------------ *)
(* Properties                                                          *)
(* ------------------------------------------------------------------ *)
HandlerRan(c) == calls[c].pc \in {"fetch", "text", "json", "returned"}

IsErrorEnvelope(e) ==
    /\ DOMAIN e = {"content", "isError"}
    /\ e.isError = TRUE
    /\ DOMAIN e.content = {1}
    /\ e.content[1].type = "text"

IsSuccessEnvelope(e) ==
    /\ DOMAIN e = {"content"}
    /\ DOMAIN e.content = {1}
    /\ e.content[1].type = "text"

(* An argument record that breaks the tool's declared shape: a required *)
(* argument is missing, or a given argument has the wrong type.          *)
InvalidArgs(tool, args) ==
    \E p \in DOMAIN inputSchema(tool) :
        \/ args[p] = Undefined /\ ~inputSchema(tool)[p].optional
        \/ args[p] # Undefined /\ args[p].t # inputSchema(tool)[p].type

(* C1: every invocation of a registered tool with valid arguments has made  *)
(* exactly one fetch call, from the moment the callback runs and whatever   *)
(* the outcome (2xx, non-2xx, transport failure); a valid invocation is     *)
(* never turned away, and a call that is turned away has made none.         *)
C1_ExactlyOneRequest ==
    \A c \in DOMAIN calls :
        /\ HandlerRan(c) => Len(net[c]) = 1
        /\ calls[c].pc \in {"idle", "rejected"} => Len(net[c]) = 0
        /\ ( /\ calls[c].pc # "idle"
             /\ calls[c].tool \in ReadmeTools
             /\ ~InvalidArgs(calls[c].tool, calls[c].args) ) => HandlerRan(c)

C1_Witness ==
    \E c \in DOMAIN calls :
        /\ calls[c].pc = "returned"
        /\ calls[c].resp.kind = "rejected"
        /\ Len(net[c]) = 1

(* C2: a tool callback whose request has settled returns an envelope and   *)
(* never throws: a success envelope (one text item, the 2-space-indented   *)
(* JSON of the parsed body, no isError) or an error envelope (one text     *)
(* item starting with "Error: ", isError true); a thrown value that is no  *)
(* Error gives "Error: Unknown error occurred".                            *)
C2_EnvelopeAlways ==
    \A c \in DOMAIN calls :
        /\ calls[c].pc \in {"idle", "rejected", "fetch", "text", "json", "returned"}
        /\ calls[c].pc = "returned" =>
            LET e == calls[c].envelope
                r == calls[c].resp
            IN  /\ \/ /\ IsSuccessEnvelope(e)
                      /\ r.kind = "response"
                      /\ JSONparse(r.body).ok
                      /\ e.content[1].text =
                            JSONstringify(JSONparse(r.body).val, <<" ", " ">>)
                   \/ /\ IsErrorEnvelope(e)
                      /\ Head(e.content[1].text) = "Error: "
                /\ (r.kind = "rejected" /\ ~r.error.isError) =>
                      e.content[1].text = <<"Error: ", "Unknown error occurred">>

(* The body {"a":[1, null]} comes back indented by two spaces per level. *)
C2_Witness ==
    \E c \in DOMAIN calls :
        /\ calls[c].pc = "returned"
        /\ calls[c].resp.body =
             <<"{", "\"", "a", "\"", ":", "[", "1", ",", " ", "n", "u", "l", "l", "]", "}">>
        /\ calls[c].envelope =
             [content |-> << [type |-> "text", text |->
                 << "{", "\n",
                    " ", " ", "\"", "a", "\"", ":", " ", "[", "\n",
                    " ", " ", " ", " ", "1", ",", "\n",
                    " ", " ", " ", " ", "n", "u", "l", "l", "\n",
                    " ", " ", "]", "\n",
                    "}" >>] >>]

(* C3: the registered tools are exactly the 19 tools of the README, each   *)
(* registered once; a name outside the list is turned away, and no request *)
(* ever targets the endpoint of listSourceControlSettings.                 *)
C3_RegistryIsReadme ==
    /\ Len(RegisteredTools) = 19
    /\ \A i, j \in DOMAIN RegisteredTools :
          RegisteredTools[i] = RegisteredTools[j] => i = j
    /\ {RegisteredTools[i] : i \in DOMAIN RegisteredTools} = ReadmeTools
    /\ \A c \in DOMAIN calls :
        /\ (calls[c].pc # "idle" /\ calls[c].tool \notin ReadmeTools) =>
              (calls[c].pc = "rejected" /\ net[c] = <<>>)
        /\ \A i \in DOMAIN net[c] :
              net[c][i].url # client.baseUrl
                  \o <<"/", "api", "/", "v2", "/", "source_control", "/", "settings">>

C3_Witness ==
    \E c \in DOMAIN calls :
        /\ calls[c].tool = "retool_list_source_control_settings"
        /\ calls[c].pc = "rejected"

StatusText(status) ==
    CASE status = 300 -> <<"3", "0", "0">>
      [] status = 404 -> <<"4", "0", "4">>
      [] status = 500 -> <<"5", "0", "0">>

ConcRequest(tool, args) ==
    [url |-> <<"https:", "/", "/", "h", "/", "api", "/", "v2", "/">>
               \o (IF tool = "retool_list_folders" THEN <<"folders">> ELSE <<"apps">>),
     method |-> IF tool = "retool_create_app" THEN "POST" ELSE "GET",
     headers |-> [Authorization |-> <<"Bearer ", "k">>,
                  ContentType |-> <<"application/json">>],
     body |-> IF tool # "retool_create_app" THEN Undefined
              ELSE IF args.folder_id = Undefined
              THEN JStr(<<"{", "\"", "name", "\"", ":", "\"", "n", "\"", "}">>)
              ELSE JStr(<<"{", "\"", "name", "\"", ":", "\"", "n", "\"", ",",
                          "\"", "folder_id", "\"", ":", "\"", "f", "\"", "}">>)]

ConcEnvelope(resp) ==
    IF resp.kind = "rejected"
    THEN [content |-> << [type |-> "text", text |-> <<"Error: ", "fetch failed">>] >>,
          isError |-> TRUE]
    ELSE IF resp.status = 200
    THEN [content |-> << [type |-> "text", text |-> <<"[", "]">>] >>]
    ELSE [content |-> << [type |-> "text", text |->
              <<"Error: ", "Retool API error (", "5", "0", "0", "): ", "n", "o">>] >>,
          isError |-> TRUE]

C6_OwnInputsOnly ==
    \A c \in DOMAIN calls :
        /\ HandlerRan(c) => net[c] = <<ConcRequest(calls[c].tool, calls[c].args)>>
        /\ calls[c].pc = "returned" => calls[c].envelope = ConcEnvelope(calls[c].resp)
        /\ \A d \in DOMAIN calls :
              ( /\ HandlerRan(c) /\ HandlerRan(d)
                /\ calls[c].tool = calls[d].tool /\ calls[c].args = calls[d].args )
              => net[c] = net[d]

C6_Frame ==
    /\ env' = env
    /\ client' = client
    /\ \A c, d \in DOMAIN calls :
          (c # d /\ (calls'[c] # calls[c] \/ net'[c] # net[c]))
          => (calls'[d] = calls[d] /\ net'[d] = net[d])

(* C6: calls are stateless and independent. The request and the envelope  *)
(* of a call are a fixed function of its own tool, arguments and remote   *)
(* response under the fixed configuration; a step of one call changes no  *)
(* other call and never the client, so no interleaving and no earlier     *)
(* failed call changes another call's request or envelope.                *)
C6_Independent == []C6_OwnInputsOnly /\ [][C6_Frame]_vars

(* Two calls of the same tool answered at once, one failed and one not. *)
C6_Witness ==
    \E c, d \in DOMAIN calls :
        /\ c # d
        /\ calls[c].pc = "returned" /\ calls[d].pc = "returned"
        /\ calls[c].tool = calls[d].tool
        /\ IsErrorEnvelope(calls[c].envelope)
        /\ IsSuccessEnvelope(calls[d].envelope)

(* C7: RETOOL_API_KEY is required: no request is sent while the key is    *)
(* unset or empty, and every request carries Authorization "Bearer <key>" *)
(* with a non-empty key.                                                  *)
C7_ApiKeyRequired ==
    \A c \in DOMAIN calls :
        \A i \in DOMAIN net[c] :
            /\ env.RETOOL_API_KEY \notin {Undefined, JStr(<<>>)}
            /\ net[c][i].headers.Authorization = <<"Bearer ">> \o env.RETOOL_API_KEY.v
            /\ Len(net[c][i].headers.Authorization) > 1

RemoteCallFailed(resp) ==
    \/ resp.kind = "rejected"
    \/ resp.kind = "response" /\ resp.status \notin 200..299
    \/ resp.kind = "response" /\ ~resp.complete

(* C8: a tool returns an error envelope exactly when its remote call      *)
(* failed (a non-2xx status, or a request that could not be completed);   *)
(* every call answered with a 2xx status, an empty or non-JSON body       *)
(* included, returns a success envelope.                                  *)
C8_ErrorIffRemoteFailed ==
    \A c \in DOMAIN calls :
        calls[c].pc = "returned" =>
            /\ IsErrorEnvelope(calls[c].envelope) <=> RemoteCallFailed(calls[c].resp)
            /\ IsSuccessEnvelope(calls[c].envelope) <=> ~RemoteCallFailed(calls[c].resp)

GetTools ==
    { "retool_list_apps", "retool_list_folders", "retool_list_workflows",
      "retool_list_resources", "retool_list_users", "retool_list_groups",
      "retool_get_app", "retool_get_resource", "retool_get_user", "retool_get_group",
      "retool_get_audit_logs" }

PostTools ==
    { "retool_create_app", "retool_create_app_release", "retool_create_folder",
      "retool_trigger_workflow", "retool_create_user", "retool_deactivate_user",
      "retool_add_user_to_group" }

ExpectedMethod(tool) ==
    CASE tool \in GetTools -> "GET"
      [] tool \in PostTools -> "POST"
      [] tool = "retool_delete_app" -> "DELETE"

(* The path segments of each tool's resource. *)
ExpectedSegments(tool, args) ==
    CASE tool \in {"retool_list_apps", "retool_create_app"} -> << <<"apps">> >>
      [] tool \in {"retool_get_app", "retool_delete_app"} -> << <<"apps">>, args.app_id.v >>
      [] tool = "retool_create_app_release" ->
            << <<"apps">>, args.app_id.v, <<"releases">> >>
      [] tool \in {"retool_list_folders", "retool_create_folder"} -> << <<"folders">> >>
      [] tool = "retool_list_workflows" -> << <<"workflows">> >>
      [] tool = "retool_trigger_workflow" ->
            << <<"workflows">>, args.workflow_id.v, <<"trigger">> >>
      [] tool = "retool_list_resources" -> << <<"resources">> >>
      [] tool = "retool_get_resource" -> << <<"resources">>, args.resource_id.v >>
      [] tool \in {"retool_list_users", "retool_create_user"} -> << <<"users">> >>
      [] tool = "retool_get_user" -> << <<"users">>, args.user_id.v >>
      [] tool = "retool_deactivate_user" ->
            << <<"users">>, args.user_id.v, <<"deactivate">> >>
      [] tool = "retool_list_groups" -> << <<"groups">> >>
      [] tool = "retool_get_group" -> << <<"groups">>, args.group_id.v >>
      [] tool = "retool_add_user_to_group" ->
            << <<"groups">>, args.group_id.v, <<"members">> >>
      [] tool = "retool_get_audit_logs" -> << <<"audit_logs">> >>

RECURSIVE JoinPath(_)
JoinPath(segments) ==
    IF segments = <<>> THEN <<>>
    ELSE <<"/">> \o Head(segments) \o JoinPath(Tail(segments))

(* s cut at every token sep: the pieces between the separators. *)
RECURSIVE SplitOn(_, _)
SplitOn(s, sep) ==
    IF s = <<>> THEN << <<>> >>
    ELSE LET rest == SplitOn(Tail(s), sep)
         IN  IF Head(s) = sep THEN << <<>> >> \o rest
             ELSE << <<Head(s)>> \o Head(rest) >> \o Tail(rest)

ApiPrefix == client.baseUrl \o <<"/", "api", "/", "v2">>

(* The part of a request URL after <base>/api/v2. *)
EndpointOf(rq) == Drop(rq.url, Len(ApiPrefix))

PlainIds(args) ==
    \A p \in DOMAIN args \cap IdParams :
        \A i \in DOMAIN args[p].v : args[p].v[i] \notin {"/", "?", "#"}

(* C9: each tool has one fixed method and path template under             *)
(* <base>/api/v2: GET for the list and get tools, POST for the seven      *)
(* creating and acting tools, DELETE for retool_delete_app alone.         *)
(* Identifiers go into the path verbatim, so with identifiers free of     *)
(* "/", "?" and "#" the request targets exactly the tool's own resource.  *)
C9_MethodAndPath ==
    \A c \in DOMAIN calls :
        HandlerRan(c) =>
            LET rq == net[c][1]
                tool == calls[c].tool
                args == calls[c].args
                endpoint == EndpointOf(rq)
                path == Head(SplitOn(endpoint, "?"))
            IN  /\ rq.method = ExpectedMethod(tool)
                /\ (rq.method = "DELETE") <=> (tool = "retool_delete_app")
                /\ StartsWith(rq.url, ApiPrefix)
                /\ tool # "retool_get_audit_logs" =>
                      endpoint = JoinPath(ExpectedSegments(tool, args))
                /\ PlainIds(args) =>
                      /\ SplitOn(path, "/") = << <<>> >> \o ExpectedSegments(tool, args)
                      /\ \A i \in DOMAIN path : path[i] # "#"
                      /\ tool # "retool_get_audit_logs" => path = endpoint

C9_Witness ==
    \E c \in DOMAIN calls :
        /\ calls[c].tool = "retool_get_user"
        /\ calls[c].args.user_id = JStr(<<"u">>)
        /\ env.RETOOL_URL = JStr(<<"https:", "/", "/", "h">>)
        /\ HandlerRan(c)
        /\ net[c][1].method = "GET"
        /\ net[c][1].url =
             <<"https:", "/", "/", "h", "/", "api", "/", "v2", "/", "users", "/", "u">>

(* Decoding of application/x-www-form-urlencoded text. *)
PercentDecode(hi, lo) ==
    CASE <<hi, lo>> = <<"3", "A">> -> ":"
      [] <<hi, lo>> = <<"2", "6">> -> "&"
      [] <<hi, lo>> = <<"3", "D">> -> "="
      [] <<hi, lo>> = <<"2", "B">> -> "+"
      [] <<hi, lo>> = <<"2", "5">> -> "%"
      [] <<hi, lo>> = <<"2", "F">> -> "/"
      [] <<hi, lo>> = <<"3", "F">> -> "?"
      [] <<hi, lo>> = <<"2", "3">> -> "#"
      [] OTHER -> "invalid"

RECURSIVE FormDecode(_)
FormDecode(s) ==
    IF s = <<>> THEN <<>>
    ELSE IF Head(s) = "+" THEN <<" ">> \o FormDecode(Tail(s))
    ELSE IF Head(s) = "%" THEN
        IF Len(s) < 3 THEN <<"invalid">>
        ELSE <<PercentDecode(s[2], s[3])>> \o FormDecode(Drop(s, 3))
    ELSE <<Head(s)>> \o FormDecode(Tail(s))

(* The characters an encoded query value may hold. *)
QuerySafe == FormUnreserved \cup {"+", "%"} \cup JSONDigits \cup {"A", "B", "C", "D", "E", "F"}

Supplied(arg) == arg # Undefined /\ arg.v # <<>>

ExpectedParams(args) ==
    (IF Supplied(args.start_date) THEN << << <<"start_date">>, args.start_date.v >> >>
     ELSE <<>>)
    \o (IF Supplied(args.end_date) THEN << << <<"end_date">>, args.end_date.v >> >>
        ELSE <<>>)

(* C10: retool_get_audit_logs requests /audit_logs with a query string    *)
(* that holds start_date only when a non-empty start_date was given and   *)
(* end_date only when a non-empty end_date was given, in that order and   *)
(* URL-encoded; with neither (or both empty) the path is /audit_logs and  *)
(* has no "?".                                                            *)
C10_AuditLogsQuery ==
    \A c \in DOMAIN calls :
        (HandlerRan(c) /\ calls[c].tool = "retool_get_audit_logs") =>
            LET endpoint == EndpointOf(net[c][1])
                expected == ExpectedParams(calls[c].args)
            IN  IF expected = <<>> THEN endpoint = <<"/", "audit_logs">>
                ELSE /\ StartsWith(endpoint, <<"/", "audit_logs", "?">>)
                     /\ LET parts == SplitOn(Drop(endpoint, 3), "&")
                        IN  /\ Len(parts) = Len(expected)
                            /\ \A i \in DOMAIN parts :
                                LET kv == SplitOn(parts[i], "=")
                                IN  /\ Len(kv) = 2
                                    /\ kv[1] = expected[i][1]
                                    /\ FormDecode(kv[2]) = expected[i][2]
                                    /\ \A j \in DOMAIN kv[2] : kv[2][j] \in QuerySafe

C10_Witness ==
    \E c \in DOMAIN calls :
        /\ calls[c].tool = "retool_get_audit_logs"
        /\ calls[c].args.start_date = JStr(<<":">>)
        /\ calls[c].args.end_date = JStr(<<" ">>)
        /\ HandlerRan(c)
        /\ EndpointOf(net[c][1]) =
             <<"/", "audit_logs", "?", "start_date", "=", "%", "3", "A", "&",
               "end_date", "=", "+">>

BodilessTools == GetTools \cup {"retool_delete_app", "retool_deactivate_user"}

(* The remote field names of each POST body with the argument each carries. *)
BodyFields(tool, args) ==
    CASE tool = "retool_create_app" ->
            << << <<"name">>, args.name >>, << <<"folder_id">>, args.folder_id >> >>
      [] tool = "retool_create_app_release" -> << << <<"version">>, args.version >> >>
      [] tool = "retool_create_folder" ->
            << << <<"name">>, args.name >>,
               << <<"parent_folder_id">>, args.parent_folder_id >> >>
      [] tool = "retool_trigger_workflow" -> << << <<"data">>, args.data >> >>
      [] tool = "retool_create_user" ->
            << << <<"email">>, args.email >>, << <<"first_name">>, args.first_name >>,
               << <<"last_name">>, args.last_name >> >>
      [] tool = "retool_add_user_to_group" -> << << <<"user_id">>, args.user_id >> >>

Given(member) == member[2] # Undefined

(* C11: every GET, the DELETE of retool_delete_app and the POST of        *)
(* retool_deactivate_user carry no body; every other POST carries the     *)
(* text of a JSON object whose members are the remote field names with    *)
(* the arguments given, an omitted optional argument being absent and not *)
(* null, so retool_trigger_workflow without data and                      *)
(* retool_create_app_release without version send {}.                     *)
C11_RequestBodies ==
    \A c \in DOMAIN calls :
        HandlerRan(c) =>
            LET rq == net[c][1]
                tool == calls[c].tool
                args == calls[c].args
            IN  IF tool \in BodilessTools THEN rq.body = Undefined
                ELSE /\ tool \in PostTools
                     /\ rq.body.t = "str"
                     /\ JSONparse(rq.body.v).ok
                     /\ JSONparse(rq.body.v).val =
                            JObj(SelectSeq(BodyFields(tool, args), Given))
                     /\ \A i \in DOMAIN JSONparse(rq.body.v).val.v :
                            JSONparse(rq.body.v).val.v[i][2] # JNull
                     /\ SelectSeq(BodyFields(tool, args), Given) = <<>> =>
                            rq.body.v = <<"{", "}">>

C11_Witness ==
    \E c \in DOMAIN calls :
        /\ calls[c].tool = "retool_trigger_workflow"
        /\ calls[c].args.data = Undefined
        /\ HandlerRan(c)
        /\ net[c][1].method = "POST"
        /\ net[c][1].body = JStr(<<"{", "}">>)

(* The configured RETOOL_URL with at most one trailing "/" removed, written *)
(* out for each configuration; an unset URL is the default one.             *)
NormalizedBase(e) ==
    CASE e.RETOOL_URL = Undefined -> <<"https:", "/", "/", "retool.example.com">>
      [] e.RETOOL_URL = JStr(<<"https:", "/", "/", "h">>) -> <<"https:", "/", "/", "h">>
      [] e.RETOOL_URL = JStr(<<"https:", "/", "/", "h", "/">>) -> <<"https:", "/", "/", "h">>
      [] e.RETOOL_URL = JStr(<<"https:", "/", "/", "h", "/", "/">>) ->
            <<"https:", "/", "/", "h", "/">>

C12_UrlIsBasePlusEndpoint ==
    /\ client.baseUrl = NormalizedBase(env)
    /\ \A c \in DOMAIN calls :
          HandlerRan(c) =>
              net[c][1].url = NormalizedBase(env) \o <<"/", "api", "/", "v2">>
                                \o toolRequest(calls[c].tool, calls[c].args).endpoint

C12_BaseNeverChanges == client' = client /\ env' = env

(* C12: the request URL is always <normalized base> + "/api/v2" + endpoint, *)
(* the normalized base being the configured RETOOL_URL with at most one     *)
(* trailing "/" removed: a base with and without one trailing slash give    *)
(* the same URL, a base ending in two slashes keeps the first, and the base *)
(* is normalized once at construction and never changed afterwards.         *)
C12_BaseUrl == []C12_UrlIsBasePlusEndpoint /\ [][C12_BaseNeverChanges]_vars

(* A request under RETOOL_URL "https://h//": one of the two slashes stays. *)
C12_Witness ==
    \E c \in DOMAIN calls :
        /\ env.RETOOL_URL = JStr(<<"https:", "/", "/", "h", "/", "/">>)
        /\ calls[c].tool = "retool_list_apps"
        /\ HandlerRan(c)
        /\ net[c][1].url =
             <<"https:", "/", "/", "h", "/", "/", "api", "/", "v2", "/", "apps">>
=============================================================================
